---- MODULE Spec2Model ----
(***************************************************************************)
(* SOARapp: Wazuh alert -> enforcement target -> OpenDaylight flow rule.   *)
(*                                                                         *)
(*   wazuh_parser.get_alert_data        (Alert Reader)                     *)
(*   soar_logic.extract_relevant_data   (Target Extractor)                 *)
(*   odl_api_client.apply_flow_rule / remove_flow_rule  (Flow Enforcer)    *)
(*   logging_utils.log_message          (diagnostics)                      *)
(*                                                                         *)
(* Python strings are sequences of one-character strings, so that          *)
(* str.replace, concatenation and equality are computed character by       *)
(* character.  Python values that may be None, a str or an int are records *)
(* [t, s, n] tagged by their type.                                         *)
(***************************************************************************)
EXTENDS Integers, Sequences, FiniteSets, TLC

VARIABLES
    call,       \* per invocation: the running apply_flow_rule/remove_flow_rule call
    flows,      \* the controller's flow table: request URL -> stored body
    alert,      \* the value handed to extract_relevant_data
    extracted,  \* outcome of extract_relevant_data
    stdin,      \* content of the input stream read by get_alert_data
    reader,     \* position, result and diagnostics of get_alert_data
    idpair      \* two (flow_type, ip_address) arguments of the flow identifier

vars == <<call, flows, alert, extracted, stdin, reader, idpair>>

(***************************************************************************)
(* Bounds of the model.                                                    *)
(***************************************************************************)
MaxIpLen == 3
MaxTokens == 5

(***************************************************************************)
(* Python values.                                                          *)
(***************************************************************************)
NoneV == [t |-> "None", s |-> <<>>, n |-> 0]
StrV(s) == [t |-> "str", s |-> s, n |-> 0]
IntV(i) == [t |-> "int", s |-> <<>>, n |-> i]

IsStr(v) == v.t = "str"

\* bool(v) for None, str and int
Truthy(v) ==
    CASE v.t = "None" -> FALSE
      [] v.t = "str" -> v.s # <<>>
      [] v.t = "int" -> v.n # 0

Digit(d) == CASE d = 0 -> "0" [] d = 1 -> "1" [] d = 2 -> "2" [] d = 3 -> "3"
              [] d = 4 -> "4" [] d = 5 -> "5" [] d = 6 -> "6" [] d = 7 -> "7"
              [] d = 8 -> "8" [] d = 9 -> "9"

RECURSIVE Decimal(_)
Decimal(i) == IF i < 10 THEN <<Digit(i)>> ELSE Decimal(i \div 10) \o <<Digit(i % 10)>>

\* str(v)
PyStr(v) ==
    CASE v.t = "None" -> <<"N", "o", "n", "e">>
      [] v.t = "str" -> v.s
      [] v.t = "int" -> IF v.n < 0 THEN <<"-">> \o Decimal(0 - v.n) ELSE Decimal(v.n)

\* s.replace(old, new) for one-character old and new
RECURSIVE replace(_, _, _)
replace(s, old, new) ==
    IF s = <<>> THEN <<>>
    ELSE <<IF Head(s) = old THEN new ELSE Head(s)>> \o replace(Tail(s), old, new)

SeqsUpTo(S, k) == UNION {[1..m -> S] : m \in 0..k}

(***************************************************************************)
(* logging_utils.log_message: the level is upper-cased and an unrecognized *)
(* level is logged as INFO.  A diagnostic is recorded by its level.        *)
(***************************************************************************)
Upper(level) ==
    CASE level \in {"debug", "DEBUG"} -> "DEBUG"
      [] level \in {"info", "INFO"} -> "INFO"
      [] level \in {"warning", "WARNING"} -> "WARNING"
      [] level \in {"error", "ERROR"} -> "ERROR"
      [] level \in {"critical", "CRITICAL"} -> "CRITICAL"
      [] OTHER -> level

log_message(log, level) ==
    LET l == Upper(level)
    IN  IF l \in {"DEBUG", "INFO", "WARNING", "ERROR", "CRITICAL"}
        THEN Append(log, l)
        ELSE Append(log, "INFO")

(***************************************************************************)
(* odl_api_client: the flow identifier, the payload and the URL.           *)
(***************************************************************************)
SRC == <<"s", "r", "c">>
DST == <<"d", "s", "t">>

table_id == 0
priority == 65535
ethernet_type == 2048
timeout == 10

ValidFlowType(flow_type) == flow_type \in {StrV(SRC), StrV(DST)}

\* mutant: the dots are dropped, ip_address.replace('.', '')
RECURSIVE strip(_, _)
strip(s, old) ==
    IF s = <<>> THEN <<>>
    ELSE (IF Head(s) = old THEN <<>> ELSE <<Head(s)>>) \o strip(Tail(s), old)

sanitized_ip_strip(ip_address) == strip(ip_address, ".")

\* sanitized_ip = ip_address.replace('.', '-')
sanitized_ip(ip_address) == replace(ip_address, ".", "-")

\* mutant: the identifier leaves the flow type out, f"block-ip-{sanitized_ip}"
flow_id_no_type(flow_type, ip_address) ==
    <<"b", "l", "o", "c", "k", "-", "i", "p", "-">> \o replace(ip_address, ".", "-")

\* flow_id = f"block-{flow_type}-ip-{sanitized_ip}"  (apply_flow_rule)
flow_id(flow_type, ip_address) ==
    <<"b", "l", "o", "c", "k", "-">> \o flow_type \o <<"-", "i", "p", "-">>
        \o sanitized_ip(ip_address)

\* mutant: remove_flow_rule builds the identifier from the unsanitized IP
remove_flow_id_raw(flow_type, ip_address) ==
    <<"b", "l", "o", "c", "k", "-">> \o flow_type \o <<"-", "i", "p", "-">> \o ip_address

\* the same two lines of remove_flow_rule
remove_flow_id(flow_type, ip_address) ==
    <<"b", "l", "o", "c", "k", "-">> \o flow_type \o <<"-", "i", "p", "-">>
        \o replace(ip_address, ".", "-")

\* f"{config.ODL_FLOW_BASE_URL}/node/{node_id}/table/{table_id}/flow/{flow_id}",
\* kept as its path segments
apply_url(node_id, fid) ==
    [base |-> "ODL_FLOW_BASE_URL", node |-> node_id, table |-> table_id, flow |-> fid]

remove_url(node_id, fid) ==
    [base |-> "ODL_FLOW_BASE_URL", node |-> node_id, table |-> table_id, flow |-> fid]

\* match: ethernet type IPv4 plus ipv4-source or ipv4-destination, a /32 CIDR
match(flow_type, ip_address) ==
    IF flow_type = SRC
    THEN [ethernet_type |-> ethernet_type,
          ipv4_source |-> ip_address \o <<"/", "3", "2">>]
    ELSE [ethernet_type |-> ethernet_type,
          ipv4_destination |-> ip_address \o <<"/", "3", "2">>]

flow_payload(flow_type, ip_address) ==
    [id |-> flow_id(flow_type, ip_address),
     table_id |-> table_id,
     flow_name |-> <<"B", "l", "o", "c", "k", " ">> \o flow_type
                       \o <<" ", "I", "P", " ">> \o ip_address,
     priority |-> priority,
     match |-> match(flow_type, ip_address),
     instruction |-> "drop-action"]

NoRequest == [method |-> "none"]

put_request(ip_address, flow_type, node_id) ==
    [method |-> "PUT",
     url |-> apply_url(node_id, flow_id(flow_type, ip_address)),
     body |-> flow_payload(flow_type, ip_address),
     headers |-> {"Content-Type", "Accept"},
     auth |-> <<"ODL_USERNAME", "ODL_PASSWORD">>,
     timeout |-> timeout]

delete_request(ip_address, flow_type, node_id) ==
    [method |-> "DELETE",
     url |-> remove_url(node_id, remove_flow_id(flow_type, ip_address)),
     headers |-> {"Accept"},
     auth |-> <<"ODL_USERNAME", "ODL_PASSWORD">>,
     timeout |-> timeout]

(***************************************************************************)
(* The controller, as a table keyed by request URL: a PUT stores the body  *)
(* under the URL, a DELETE removes the URL.                                *)
(***************************************************************************)
NoFlows == [u \in {} |-> NoRequest]

controller_serve(tbl, req) ==
    IF req.method = "PUT"
    THEN [u \in DOMAIN tbl \cup {req.url} |-> IF u = req.url THEN req.body ELSE tbl[u]]
    ELSE [u \in DOMAIN tbl \ {req.url} |-> tbl[u]]

\* What one requests.put / requests.delete call can end in: a final response
\* with a status code, or a requests.RequestException (timeout, connection
\* failure).  processed tells whether the controller carried the request out.
Outcomes ==
    {[processed |-> TRUE, kind |-> "status", status |-> st, exc |-> "none"] : st \in {200, 204}}
    \cup {[processed |-> FALSE, kind |-> "status", status |-> st, exc |-> "none"] :
              st \in {304, 404, 500}}
    \cup {[processed |-> TRUE, kind |-> "exception", status |-> 0, exc |-> "Timeout"]}
    \cup {[processed |-> FALSE, kind |-> "exception", status |-> 0, exc |-> "ConnectionError"]}

NoResponse == [processed |-> FALSE, kind |-> "none", status |-> 0, exc |-> "none"]

\* response.raise_for_status(): HTTPError for a 4xx or 5xx status only
raise_for_status(status) == 400 <= status /\ status < 600

(***************************************************************************)
(* apply_flow_rule and remove_flow_rule.  A call runs up to its HTTP       *)
(* request (Call), blocks, and finishes when the request ends (Response).  *)
(***************************************************************************)
Idle ==
    [pc |-> "idle", op |-> "none", ip |-> NoneV, ft |-> NoneV, node |-> "none",
     req |-> NoRequest, resp |-> NoResponse, ret |-> "none", raised |-> "none",
     nreq |-> 0, log |-> <<>>]

\* mutant: apply_flow_rule without the flow_type check
apply_flow_rule_unchecked(ip_address, flow_type, node_id) ==
    LET c == [Idle EXCEPT !.op = "apply", !.ip = ip_address, !.ft = flow_type,
                          !.node = node_id]
    IN  IF ~IsStr(ip_address)
        THEN [c EXCEPT !.pc = "raised", !.raised = "AttributeError"]
        ELSE [c EXCEPT !.pc = "waiting", !.nreq = c.nreq + 1,
                       !.req = put_request(ip_address.s, PyStr(flow_type), node_id)]

\* apply_flow_rule up to requests.put
apply_flow_rule(ip_address, flow_type, node_id) ==
    LET c == [Idle EXCEPT !.op = "apply", !.ip = ip_address, !.ft = flow_type,
                          !.node = node_id]
    IN  IF ~ValidFlowType(flow_type)
        THEN [c EXCEPT !.pc = "done", !.ret = "False",
                       !.log = log_message(c.log, "error")]
        ELSE IF ~IsStr(ip_address)
        THEN [c EXCEPT !.pc = "raised", !.raised = "AttributeError"]
        ELSE [c EXCEPT !.pc = "waiting", !.nreq = c.nreq + 1,
                       !.req = put_request(ip_address.s, flow_type.s, node_id)]

\* remove_flow_rule up to requests.delete
remove_flow_rule(ip_address, flow_type, node_id) ==
    LET c == [Idle EXCEPT !.op = "remove", !.ip = ip_address, !.ft = flow_type,
                          !.node = node_id]
    IN  IF ~ValidFlowType(flow_type)
        THEN [c EXCEPT !.pc = "done", !.ret = "False",
                       !.log = log_message(c.log, "error")]
        ELSE IF ~IsStr(ip_address)
        THEN [c EXCEPT !.pc = "raised", !.raised = "AttributeError"]
        ELSE [c EXCEPT !.pc = "waiting", !.nreq = c.nreq + 1,
                       !.req = delete_request(ip_address.s, flow_type.s, node_id)]

\* mutant: apply_flow_rule without response.raise_for_status()
apply_flow_rule_finish_unchecked(c, o) ==
    IF o.kind = "exception"
    THEN [c EXCEPT !.pc = "done", !.resp = o, !.ret = "False",
                   !.log = log_message(c.log, "error")]
    ELSE [c EXCEPT !.pc = "done", !.resp = o, !.ret = "True",
                   !.log = log_message(c.log, "info")]

\* apply_flow_rule from the end of requests.put: raise_for_status, log, return
apply_flow_rule_finish(c, o) ==
    IF o.kind = "exception" \/ raise_for_status(o.status)
    THEN [c EXCEPT !.pc = "done", !.resp = o, !.ret = "False",
                   !.log = log_message(c.log, "error")]
    ELSE [c EXCEPT !.pc = "done", !.resp = o, !.ret = "True",
                   !.log = log_message(c.log, "info")]

\* remove_flow_rule from the end of requests.delete
remove_flow_rule_finish(c, o) ==
    IF o.kind = "exception" \/ raise_for_status(o.status)
    THEN [c EXCEPT !.pc = "done", !.resp = o, !.ret = "False",
                   !.log = log_message(c.log, "error")]
    ELSE [c EXCEPT !.pc = "done", !.resp = o, !.ret = "True",
                   !.log = log_message(c.log, "info")]

(***************************************************************************)
(* soar_logic.extract_relevant_data.                                       *)
(*                                                                         *)
(* An alert is a parsed JSON value: t is its Python type; for a dict,      *)
(* rule and agent are [t, id] / [t, ip] (t = "absent" when the key is      *)
(* missing, "dict" when the value is an object) and srcip, dstip are       *)
(* Python values or Absent.                                                *)
(***************************************************************************)
Absent == [t |-> "absent", s |-> <<>>, n |-> 0]

\* d.get(key): None when the key is missing
dict_get(v) == IF v.t = "absent" THEN NoneV ELSE v

\* d.get(key, default)
dict_get_default(v, default) == IF v.t = "absent" THEN default ELSE v

opendaylight_node_id == "openflow:1"

RULE_100001 == <<"1", "0", "0", "0", "0", "1">>
RULE_100002 == <<"1", "0", "0", "0", "0", "2">>
RULE_100003 == <<"1", "0", "0", "0", "0", "3">>

\* The names bound in module soar_logic when extract_relevant_data runs: the
\* file imports nothing and defines this one function.
soar_logic_globals == {"extract_relevant_data"}

\* Calling log_message(message) from soar_logic: the name is looked up in the
\* module's globals (NameError when unbound); logging_utils.log_message takes
\* two required parameters (TypeError when called with one).
soar_log_call(nargs) ==
    IF "log_message" \notin soar_logic_globals THEN "NameError"
    ELSE IF nargs < 2 THEN "TypeError"
    ELSE "none"

\* the match statement: (ip_to_block, flow_type) from the values read before it
classify(rule_id, src_ip, dst_ip, agent_ip) ==
    CASE rule_id = RULE_100001 -> <<src_ip, StrV(SRC)>>
      [] rule_id = RULE_100002 -> <<dst_ip, StrV(DST)>>
      [] rule_id = RULE_100003 -> <<agent_ip, StrV(SRC)>>
      [] OTHER -> IF Truthy(agent_ip) THEN <<agent_ip, StrV(SRC)>>
                  ELSE IF Truthy(src_ip) THEN <<src_ip, StrV(SRC)>>
                  ELSE <<NoneV, NoneV>>

NotExtracted == [pc |-> "start", raised |-> "none", ret |-> <<>>]

Raised(exc) == [pc |-> "done", raised |-> exc, ret |-> <<>>]

Returned(triple) == [pc |-> "done", raised |-> "none", ret |-> triple]

\* the values the function reads from the alert before the first log call:
\* [raised, rule_id, src_ip, dst_ip, agent_ip]
read_fields(a) ==
    LET fail == [raised |-> "AttributeError", rule_id |-> <<>>, src_ip |-> NoneV,
                 dst_ip |-> NoneV, agent_ip |-> NoneV]
    IN  IF a.t # "dict" THEN fail                          \* alert.get
        ELSE IF a.rule.t \notin {"absent", "dict"} THEN fail   \* rule.get
        ELSE IF a.agent.t \notin {"absent", "dict"} THEN fail  \* agent.get
        ELSE [raised |-> "none",
              rule_id |-> IF a.rule.t = "absent"
                          THEN <<"N", "/", "A">>
                          ELSE PyStr(dict_get_default(a.rule.id, StrV(<<"N", "/", "A">>))),
              src_ip |-> dict_get(a.srcip),
              dst_ip |-> dict_get(a.dstip),
              agent_ip |-> IF a.agent.t = "absent" THEN NoneV ELSE dict_get(a.agent.ip)]

extract_relevant_data(a) ==
    LET f == read_fields(a)
    IN  IF f.raised # "none" THEN Raised(f.raised)
        ELSE IF soar_log_call(1) # "none" THEN Raised(soar_log_call(1))
        ELSE LET c == classify(f.rule_id, f.src_ip, f.dst_ip, f.agent_ip)
             IN  Returned(<<c[1], c[2], opendaylight_node_id>>)

IP_A == <<"1", ".", "2">>
IP_B == <<"1", "-", "2">>
IP_C == <<"2", ".", "1">>

RuleIds ==
    {Absent, NoneV, StrV(<<"9", "9">>), IntV(99)}
    \cup {StrV(r) : r \in {RULE_100001, RULE_100002, RULE_100003}}
    \cup {IntV(i) : i \in {100001, 100002, 100003}}

RuleFields ==
    {[t |-> k, id |-> Absent] : k \in {"absent", "None", "str"}}
    \cup {[t |-> "dict", id |-> i] : i \in RuleIds}

AgentFields ==
    {[t |-> k, ip |-> Absent] : k \in {"absent", "None", "str"}}
    \cup {[t |-> "dict", ip |-> i] : i \in {Absent, NoneV, StrV(<<>>), StrV(IP_B)}}

SrcIps == {Absent, NoneV, StrV(<<>>), StrV(IP_A)}
DstIps == {Absent, NoneV, StrV(IP_C)}

EmptyDictAlert ==
    [t |-> "dict", rule |-> [t |-> "absent", id |-> Absent], srcip |-> Absent,
     dstip |-> Absent, agent |-> [t |-> "absent", ip |-> Absent]]

\* what get_alert_data can return: a dict, or a JSON value that is no dict
Alerts ==
    [t : {"dict"}, rule : RuleFields, srcip : SrcIps, dstip : DstIps, agent : AgentFields]
    \cup {[EmptyDictAlert EXCEPT !.t = k] : k \in {"list", "str", "None", "float"}}

Invocations == {"inv1", "inv2"}

IpArgs == {NoneV, StrV(IP_A), StrV(IP_B)}
FlowTypeArgs == {NoneV, StrV(SRC), StrV(DST), StrV(<<"S", "R", "C">>)}
NodeArgs == {"openflow:1", "openflow:2"}

others == <<alert, extracted, stdin, reader, idpair>>

ApplyCall(p, ip, ft, node) ==
    /\ call[p].pc # "waiting"
    /\ call' = [call EXCEPT ![p] = apply_flow_rule(ip, ft, node)]
    /\ UNCHANGED <<flows, others>>

RemoveCall(p, ip, ft, node) ==
    /\ call[p].pc # "waiting"
    /\ call' = [call EXCEPT ![p] = remove_flow_rule(ip, ft, node)]
    /\ UNCHANGED <<flows, others>>

Response(p, o) ==
    /\ call[p].pc = "waiting"
    /\ flows' = IF o.processed THEN controller_serve(flows, call[p].req) ELSE flows
    /\ call' = [call EXCEPT ![p] =
                   IF call[p].op = "apply"
                   THEN apply_flow_rule_finish(call[p], o)
                   ELSE remove_flow_rule_finish(call[p], o)]
    /\ UNCHANGED others

(***************************************************************************)
(* wazuh_parser.get_alert_data.  The input stream is a sequence of JSON    *)
(* tokens (strings stand for every scalar but the literal NaN), or cannot  *)
(* be read at all.  A parsed value is the sequence of its parts.           *)
(***************************************************************************)
Tokens == {"{", "}", ":", ",", "s", "NaN"}

EmptyDict == <<"{", "}">>

ParseFail == [ok |-> FALSE, val |-> <<>>, rest |-> <<>>]

RECURSIVE parse_value(_)
RECURSIVE parse_members(_, _)

\* json.loads' decoder for one value at the head of t; Python's decoder
\* accepts the literal NaN (and Infinity, -Infinity) as a float
parse_value(t) ==
    IF t = <<>> THEN ParseFail
    ELSE CASE Head(t) = "s" -> [ok |-> TRUE, val |-> <<"str">>, rest |-> Tail(t)]
           [] Head(t) = "NaN" -> [ok |-> TRUE, val |-> <<"float:nan">>, rest |-> Tail(t)]
           [] Head(t) = "{" ->
                IF Len(t) >= 2 /\ t[2] = "}"
                THEN [ok |-> TRUE, val |-> EmptyDict, rest |-> SubSeq(t, 3, Len(t))]
                ELSE parse_members(Tail(t), <<"{">>)
           [] OTHER -> ParseFail

parse_members(t, acc) ==
    IF Len(t) < 3 \/ t[1] # "s" \/ t[2] # ":" THEN ParseFail
    ELSE LET r == parse_value(SubSeq(t, 3, Len(t)))
         IN  IF ~r.ok \/ r.rest = <<>> THEN ParseFail
             ELSE IF Head(r.rest) = "}"
             THEN [ok |-> TRUE, val |-> acc \o <<"key">> \o r.val \o <<"}">>,
                   rest |-> Tail(r.rest)]
             ELSE IF Head(r.rest) = ","
             THEN parse_members(Tail(r.rest), acc \o <<"key">> \o r.val)
             ELSE ParseFail

\* json.loads(raw_data): the value, or JSONDecodeError (also for data after it)
json_loads(raw_data) ==
    LET r == parse_value(raw_data)
    IN  IF r.ok /\ r.rest = <<>> THEN r ELSE ParseFail

NotRead == [pc |-> "start", raised |-> "none", ret |-> <<>>, log |-> <<>>]

\* mutant: no handler for json.JSONDecodeError, so that the handler of
\* Exception takes a decoding failure
get_alert_data_one_handler(in) ==
    LET log0 == log_message(<<>>, "info")
    IN  IF ~in.readable \/ (in.toks # <<>> /\ ~json_loads(in.toks).ok)
        THEN [pc |-> "done", raised |-> "none", ret |-> EmptyDict,
              log |-> log_message(log0, "critical")]
        ELSE IF in.toks = <<>>
        THEN [pc |-> "done", raised |-> "none", ret |-> EmptyDict,
              log |-> log_message(log0, "warning")]
        ELSE [pc |-> "done", raised |-> "none", ret |-> json_loads(in.toks).val,
              log |-> log_message(log0, "info")]

get_alert_data(in) ==
    LET log0 == log_message(<<>>, "info")
    IN  IF ~in.readable                                   \* sys.stdin.read() raises
        THEN [pc |-> "done", raised |-> "none", ret |-> EmptyDict,
              log |-> log_message(log0, "critical")]
        ELSE IF in.toks = <<>>                            \* if not raw_data
        THEN [pc |-> "done", raised |-> "none", ret |-> EmptyDict,
              log |-> log_message(log0, "warning")]
        ELSE IF ~json_loads(in.toks).ok                   \* except json.JSONDecodeError
        THEN [pc |-> "done", raised |-> "none", ret |-> EmptyDict,
              log |-> log_message(log0, "error")]
        ELSE [pc |-> "done", raised |-> "none", ret |-> json_loads(in.toks).val,
              log |-> log_message(log0, "info")]

Streams ==
    {[readable |-> TRUE, toks |-> t] : t \in SeqsUpTo(Tokens, MaxTokens)}
    \cup {[readable |-> FALSE, toks |-> <<>>]}

(***************************************************************************)
(* Initial states and steps.                                               *)
(***************************************************************************)
NoStream == [readable |-> TRUE, toks |-> <<>>]

NoPair == [pc |-> "start", a |-> <<SRC, <<>>>>, b |-> <<SRC, <<>>>>, ida |-> <<>>, idb |-> <<>>]

EnforcerInit ==
    /\ call = [p \in Invocations |-> Idle]
    /\ flows = NoFlows
    /\ alert = EmptyDictAlert
    /\ extracted = NotExtracted
    /\ stdin = NoStream
    /\ reader = NotRead
    /\ idpair = NoPair

\* one caller at a time, any arguments
Next ==
    \/ \E ip \in IpArgs, ft \in FlowTypeArgs, node \in NodeArgs :
          ApplyCall("inv1", ip, ft, node)
    \/ \E ip \in IpArgs, ft \in FlowTypeArgs, node \in NodeArgs :
          RemoveCall("inv1", ip, ft, node)
    \/ \E o \in Outcomes : Response("inv1", o)

Spec == EnforcerInit /\ [][Next]_vars

\* two invocations at once, each with valid arguments for the default node
ConcIpArgs == {StrV(IP_A), StrV(IP_B), StrV(IP_C)}
ConcOutcomes == {o \in Outcomes : o.kind = "status" /\ o.status \in {200, 500}}

NextConc ==
    \E p \in Invocations :
        \/ \E ip \in ConcIpArgs, ft \in {StrV(SRC), StrV(DST)} :
              ApplyCall(p, ip, ft, opendaylight_node_id)
        \/ \E ip \in ConcIpArgs, ft \in {StrV(SRC), StrV(DST)} :
              RemoveCall(p, ip, ft, opendaylight_node_id)
        \/ \E o \in ConcOutcomes : Response(p, o)

SpecConc == EnforcerInit /\ [][NextConc]_vars

\* extract_relevant_data on every alert
ExtractInit ==
    /\ alert \in Alerts
    /\ extracted = NotExtracted
    /\ call = [p \in Invocations |-> Idle]
    /\ flows = NoFlows
    /\ stdin = NoStream
    /\ reader = NotRead
    /\ idpair = NoPair

ExtractStep ==
    /\ extracted.pc = "start"
    /\ extracted' = extract_relevant_data(alert)
    /\ UNCHANGED <<call, flows, alert, stdin, reader, idpair>>

SpecExtract == ExtractInit /\ [][ExtractStep]_vars

\* the match statement alone, on the values read from every dict alert
MatchBlockStep ==
    /\ extracted.pc = "start"
    /\ read_fields(alert).raised = "none"
    /\ LET f == read_fields(alert)
           c == classify(f.rule_id, f.src_ip, f.dst_ip, f.agent_ip)
       IN  extracted' = Returned(<<c[1], c[2], opendaylight_node_id>>)
    /\ UNCHANGED <<call, flows, alert, stdin, reader, idpair>>

SpecClassify == ExtractInit /\ [][MatchBlockStep]_vars

\* get_alert_data on every input stream
ReaderInit ==
    /\ stdin \in Streams
    /\ reader = NotRead
    /\ call = [p \in Invocations |-> Idle]
    /\ flows = NoFlows
    /\ alert = EmptyDictAlert
    /\ extracted = NotExtracted
    /\ idpair = NoPair

ReadStep ==
    /\ reader.pc = "start"
    /\ reader' = get_alert_data(stdin)
    /\ UNCHANGED <<call, flows, alert, extracted, stdin, idpair>>

SpecReader == ReaderInit /\ [][ReadStep]_vars

\* the flow identifier of two (flow_type, ip_address) pairs
IpChars == {"1", ".", "-"}

FlowIdArgs ==
    {<<ft, ip>> : ft \in {SRC, DST}, ip \in SeqsUpTo(IpChars, MaxIpLen)}
    \cup {<<SRC, <<"2", "0", "3", ".", "0", ".", "1", "1", "3", ".", "5">>>>}

FlowIdInit ==
    /\ idpair \in {[NoPair EXCEPT !.a = x, !.b = y] : x \in FlowIdArgs, y \in FlowIdArgs}
    /\ call = [p \in Invocations |-> Idle]
    /\ flows = NoFlows
    /\ alert = EmptyDictAlert
    /\ extracted = NotExtracted
    /\ stdin = NoStream
    /\ reader = NotRead

FlowIdStep ==
    /\ idpair.pc = "start"
    /\ idpair' = [idpair EXCEPT !.pc = "done",
                                !.ida = flow_id(idpair.a[1], idpair.a[2]),
                                !.idb = remove_flow_id(idpair.b[1], idpair.b[2])]
    /\ UNCHANGED <<call, flows, alert, extracted, stdin, reader>>

SpecFlowId == FlowIdInit /\ [][FlowIdStep]_vars

(***************************************************************************)
(* Properties.                                                             *)
(***************************************************************************)
HasLevel(log, level) == \E i \in 1..Len(log) : log[i] = level

\* a key that is present with a non-null value
Present(v) == v.t \notin {"absent", "None"}

\* the alert carries a rule id, whose string form is r
RuleIdIs(a, r) ==
    /\ a.t = "dict"
    /\ a.rule.t = "dict"
    /\ a.rule.id.t \in {"str", "int"}
    /\ PyStr(a.rule.id) = r

AgentIp(a) == IF a.agent.t = "dict" THEN a.agent.ip ELSE Absent

\* C1: an alert whose rule id reads "100001", "100002" or "100003" and whose
\* designated field (srcip, dstip, agent.ip) is non-null makes
\* extract_relevant_data return (that field, "src"/"dst"/"src", "openflow:1"),
\* whatever the other fields are.
C1_KnownRuleTargets ==
    extracted.pc = "done" =>
        /\ RuleIdIs(alert, RULE_100001) /\ Present(alert.srcip)
             => extracted = Returned(<<alert.srcip, StrV(SRC), "openflow:1">>)
        /\ RuleIdIs(alert, RULE_100002) /\ Present(alert.dstip)
             => extracted = Returned(<<alert.dstip, StrV(DST), "openflow:1">>)
        /\ RuleIdIs(alert, RULE_100003) /\ Present(AgentIp(alert))
             => extracted = Returned(<<AgentIp(alert), StrV(SRC), "openflow:1">>)

\* the same mapping, of the match statement alone (SpecClassify)
MatchBlock_KnownRuleTargets == C1_KnownRuleTargets

MatchBlock_KnownRuleReached ==
    /\ extracted.pc = "done"
    /\ RuleIdIs(alert, RULE_100002)
    /\ alert.rule.id.t = "int"
    /\ Present(alert.dstip)

UnknownRule(a) ==
    /\ a.t = "dict"
    /\ ~RuleIdIs(a, RULE_100001)
    /\ ~RuleIdIs(a, RULE_100002)
    /\ ~RuleIdIs(a, RULE_100003)

\* C2: an alert whose rule id is missing or none of the three makes the
\* extractor return (agent.ip, "src", node) if agent.ip is present, else
\* (srcip, "src", node) if srcip is present, else (null, null, node); never
\* dstip and never "dst".
C2_FallbackTargets ==
    extracted.pc = "done" /\ UnknownRule(alert) =>
        /\ extracted.raised = "none"
        /\ extracted.ret =
             IF Present(AgentIp(alert)) THEN <<AgentIp(alert), StrV(SRC), "openflow:1">>
             ELSE IF Present(alert.srcip) THEN <<alert.srcip, StrV(SRC), "openflow:1">>
             ELSE <<NoneV, NoneV, "openflow:1">>
        /\ extracted.ret[2] # StrV(DST)

\* the fallback of the match statement alone (SpecClassify), for fields that
\* are absent, null or a non-empty string
MatchBlock_FallbackTargets ==
    (AgentIp(alert) # StrV(<<>>) /\ alert.srcip # StrV(<<>>)) => C2_FallbackTargets

\* the same, an empty string counting as present (SpecClassify)
MatchBlock_FallbackEmptyString == C2_FallbackTargets

\* C3: extract_relevant_data returns a target, and a target with a null IP
\* has a null direction, also for a known rule id whose designated field is
\* missing.
C3_NullIpNullDirection ==
    extracted.pc = "done" =>
        /\ extracted.raised = "none"
        /\ extracted.ret[1] = NoneV => extracted.ret[2] = NoneV

\* the same, of the match statement alone (SpecClassify)
MatchBlock_NullIpNullDirection == C3_NullIpNullDirection

\* C4: no exception crosses a component boundary: extract_relevant_data
\* returns a triple for every value get_alert_data can return, and
\* apply_flow_rule / remove_flow_rule return a boolean for every (ip,
\* flow_type) and every controller outcome.
C4_NoExceptionCrossesBoundary ==
    /\ extracted.pc = "done" => extracted.raised = "none" /\ Len(extracted.ret) = 3
    /\ \A p \in Invocations :
          /\ call[p].pc # "raised"
          /\ call[p].pc = "done" => call[p].ret \in {"True", "False"}

\* the Flow Enforcer's half of C4 (Spec)
Enforcer_NeverRaises == \A p \in Invocations : call[p].pc # "raised"

\* C5: with a flow_type that is not exactly "src" or "dst", apply_flow_rule
\* and remove_flow_rule return false, log an error and issue no HTTP request,
\* and the controller's flow table is unchanged.
C5_InvalidFlowType ==
    /\ [](\A p \in Invocations :
            call[p].pc # "idle" /\ call[p].ft \notin {StrV(SRC), StrV(DST)} =>
                /\ call[p].pc = "done"
                /\ call[p].ret = "False"
                /\ call[p].log = <<"ERROR">>
                /\ call[p].nreq = 0
                /\ call[p].req = NoRequest)
    /\ [][\A p \in Invocations :
            call'[p] # call[p] /\ call'[p].ft \notin {StrV(SRC), StrV(DST)}
                => flows' = flows]_vars

C5_Reached ==
    /\ call["inv1"].pc = "done"
    /\ call["inv1"].op = "remove"
    /\ call["inv1"].ft = StrV(<<"S", "R", "C">>)
    /\ call["inv1"].ip = StrV(IP_A)
    /\ flows # NoFlows

ValidCall(c) == c.pc # "idle" /\ c.ft \in {StrV(SRC), StrV(DST)} /\ c.ip.t = "str"

OneRequest(c) ==
    /\ c.nreq = 1
    /\ c.req.method = (IF c.op = "apply" THEN "PUT" ELSE "DELETE")
    /\ c.pc \in {"waiting", "done"}

SameButDots(x, y) ==
    /\ Len(x) = Len(y)
    /\ \A i \in 1..Len(x) : x[i] = y[i] \/ {x[i], y[i]} = {".", "-"}

NoDot(s) == \A i \in 1..Len(s) : s[i] # "."

SCENARIO_A_IP == <<"2", "0", "3", ".", "0", ".", "1", "1", "3", ".", "5">>
SCENARIO_A_ID ==
    <<"b", "l", "o", "c", "k", "-", "s", "r", "c", "-", "i", "p", "-",
      "2", "0", "3", "-", "0", "-", "1", "1", "3", "-", "5">>

FlowIdDeterministic ==
    /\ idpair.a = idpair.b => idpair.ida = idpair.idb
    /\ NoDot(idpair.ida) /\ NoDot(idpair.idb)
    /\ idpair.a = <<SRC, SCENARIO_A_IP>> => idpair.ida = SCENARIO_A_ID

RECURSIVE ValueEnd(_, _, _)
RECURSIVE MembersEnd(_, _, _)

ValueEnd(t, i, lits) ==
    IF i > Len(t) THEN 0
    ELSE IF t[i] \in lits THEN i + 1
    ELSE IF t[i] # "{" THEN 0
    ELSE IF i + 1 <= Len(t) /\ t[i + 1] = "}" THEN i + 2
    ELSE MembersEnd(t, i + 1, lits)

MembersEnd(t, i, lits) ==
    IF i + 1 > Len(t) \/ t[i] # "s" \/ t[i + 1] # ":" THEN 0
    ELSE LET e == ValueEnd(t, i + 2, lits)
         IN  IF e = 0 \/ e > Len(t) THEN 0
             ELSE IF t[e] = "}" THEN e + 1
             ELSE IF t[e] = "," THEN MembersEnd(t, e + 1, lits)
             ELSE 0

IsJsonText(t, lits) == ValueEnd(t, 1, lits) = Len(t) + 1

ReaderTotal(lits) ==
    reader.pc = "done" =>
        /\ reader.raised = "none"
        /\ ~stdin.readable
             => reader.ret = EmptyDict /\ HasLevel(reader.log, "CRITICAL")
        /\ stdin.readable /\ stdin.toks = <<>>
             => /\ reader.ret = EmptyDict
                /\ HasLevel(reader.log, "WARNING")
                /\ ~HasLevel(reader.log, "ERROR")
        /\ stdin.readable /\ stdin.toks # <<>> /\ ~IsJsonText(stdin.toks, lits)
             => /\ reader.ret = EmptyDict
                /\ HasLevel(reader.log, "ERROR")
                /\ ~HasLevel(reader.log, "WARNING")

Blocked(tbl, node, ft, ip) ==
    \E u \in DOMAIN tbl : u.node = node /\ tbl[u].match = match(ft, ip)

Status2xx(c) == c.resp.kind = "status" /\ c.resp.status >= 200 /\ c.resp.status <= 299

\* C9: apply_flow_rule and remove_flow_rule compute the same URL for the same
\* arguments; a successful apply leaves the pair blocked and a successful
\* remove leaves it unblocked; a successful apply of a pair that is already
\* blocked leaves the controller's table as it was.
C9_ApplyRemoveSameEntry ==
    /\ [](\A p \in Invocations :
            ValidCall(call[p]) /\ call[p].pc \in {"waiting", "done"} =>
                /\ call[p].req.url =
                     apply_url(call[p].node, flow_id(call[p].ft.s, call[p].ip.s))
                /\ call[p].op = "apply" =>
                     call[p].req.body = flow_payload(call[p].ft.s, call[p].ip.s)
                /\ call[p].pc = "done" /\ Status2xx(call[p]) =>
                     (call[p].op = "apply" <=>
                          Blocked(flows, call[p].node, call[p].ft.s, call[p].ip.s)))
    /\ [][\A p \in Invocations :
            (/\ call[p].pc = "waiting"
             /\ call[p].op = "apply"
             /\ call'[p].pc = "done"
             /\ Status2xx(call'[p])
             /\ Blocked(flows, call[p].node, call[p].ft.s, call[p].ip.s))
                => flows' = flows]_vars

C9_Reached ==
    /\ call["inv1"].pc = "done"
    /\ call["inv1"].op = "remove"
    /\ call["inv1"].ip = StrV(IP_A)
    /\ call["inv1"].ft = StrV(DST)
    /\ call["inv1"].node = "openflow:2"
    /\ Status2xx(call["inv1"])
    /\ Blocked(flows, "openflow:1", DST, IP_A)

ConcPairs == {<<ft, ip>> : ft \in {SRC, DST}, ip \in {IP_A, IP_B, IP_C}}

\* the controller serves the request of invocation p in this step
Served(p) == call[p].pc = "waiting" /\ call'[p].pc = "done"

====
